---- MODULE Spec2Model ----
(***************************************************************************)
(* Model of the file logger of economy2.0 (src/system/Diagnostics.h) and   *)
(* of its use in src/program.cpp.                                          *)
(*                                                                         *)
(* Strings are sequences of one-character strings, so that formatting,     *)
(* concatenation and line structure are computed, not assumed.  The file   *)
(* system is a set of directories plus a function from the paths of the    *)
(* existing files to their contents.  The content of a file is what has    *)
(* been inserted into the streams opened on it (the stream buffer is       *)
(* flushed at the latest by close(), which the destructor calls).  The     *)
(* standard error stream is the sequence of the diagnostics emitted.       *)
(* At most one Logger object is alive at a time; loggers are constructed   *)
(* and destroyed one after the other.                                      *)
(***************************************************************************)
EXTENDS Integers, Sequences, FiniteSets, TLC

(* ---------------------------------------------------------------- bounds *)

\* seconds the wall clock advances during a run, at most
MaxClock == 1

\* constructor calls during a run
MaxLoggers == 2

\* calls of the six write methods during a run
MaxWrites == 2

\* changes of the permissions of the file system during a run
MaxPermissions == 1

(* --------------------------------------------------------------- strings *)

NL == "\n"

DigitChars == <<"0", "1", "2", "3", "4", "5", "6", "7", "8", "9">>

Digit(d) == DigitChars[d + 1]

\* strftime's %H, %M, %S, %m, %d: two digits, zero padded
Pad2(n) == <<Digit((n \div 10) % 10), Digit(n % 10)>>

\* strftime's %Y for a four-digit year
Pad4(n) == <<Digit((n \div 1000) % 10), Digit((n \div 100) % 10)>> \o Pad2(n % 100)

\* the messages the callers pass: empty, one character, one with an
\* embedded newline
Messages == {<< >>, <<"a">>, <<"b", NL, "c">>}

(* ------------------------------------------------------------ file names *)

\* the three members of Logger that hold a stream, in declaration order
Channels == {"logFile", "warningLogFile", "errorLogFile"}

\* what createLogs appends to the date to name a channel's file
Suffix(c) ==
    CASE c = "logFile" -> <<".", "l", "o", "g">>
      [] c = "warningLogFile" ->
            <<" ", "W", "a", "r", "n", "i", "n", "g", "s", ".", "l", "o", "g">>
      [] c = "errorLogFile" ->
            <<" ", "E", "r", "r", "o", "r", "s", ".", "l", "o", "g">>

\* the two directories the constructor chooses between
LogDir(isSubdirectory) == IF isSubdirectory THEN "cwd/log" ELSE "cwd/../log"

\* operator/ of fs::path: a file name inside a directory
PathOf(logDirPath, name) == [dir |-> logDirPath, name |-> name]

NoPath == [dir |-> "", name |-> << >>]

(* ----------------------------------------------------------- TimeManager *)

IsLeap(y) == (y % 4 = 0 /\ y % 100 # 0) \/ y % 400 = 0

DaysInYear(y) == IF IsLeap(y) THEN 366 ELSE 365

DaysInMonth(y, m) ==
    IF m = 2 THEN (IF IsLeap(y) THEN 29 ELSE 28)
    ELSE IF m \in {4, 6, 9, 11} THEN 30 ELSE 31

RECURSIVE YearOfDays(_, _)
\* <<year, day of the year from 0>> of a day count that starts at 1 January of y
YearOfDays(y, d) ==
    IF d < DaysInYear(y) THEN <<y, d>> ELSE YearOfDays(y + 1, d - DaysInYear(y))

RECURSIVE MonthOfDays(_, _, _)
\* <<month, day of the month>> of the day of the year d that starts at month m
MonthOfDays(y, m, d) ==
    IF d < DaysInMonth(y, m) THEN <<m, d + 1>>
    ELSE MonthOfDays(y, m + 1, d - DaysInMonth(y, m))

\* time(NULL) when the wall clock has advanced by t seconds since the start
\* of the run; the run starts on 1970-01-31 at 23:59:59 (UTC)
time(t) == 30 * 86400 + 86399 + t

\* localtime(): the broken-down time of a time_t (time zone UTC)
localtime(timestamp) ==
    LET yd == YearOfDays(1970, timestamp \div 86400)
        md == MonthOfDays(yd[1], 1, yd[2])
    IN  [tm_year |-> yd[1], tm_mon |-> md[1], tm_mday |-> md[2],
         tm_hour |-> (timestamp % 86400) \div 3600,
         tm_min |-> (timestamp % 3600) \div 60,
         tm_sec |-> timestamp % 60]

\* TimeManager::currentDateFormatted at clock reading t: "%Y-%m-%d"
currentDateFormatted(t) ==
    LET datetime == localtime(time(t))
    IN  Pad4(datetime.tm_year) \o <<"-">> \o Pad2(datetime.tm_mon) \o <<"-">>
            \o Pad2(datetime.tm_mday)

\* strftime without zero padding ("%-H:%-M:%-S")
Unpadded(n) == IF n < 10 THEN <<Digit(n)>> ELSE Pad2(n)

\* fault: currentTimeFormatted with a format that does not pad with zeros
currentTimeFormattedUnpadded(t) ==
    LET datetime == localtime(time(t))
    IN  Unpadded(datetime.tm_hour) \o <<":">> \o Unpadded(datetime.tm_min)
            \o <<":">> \o Unpadded(datetime.tm_sec)

\* TimeManager::currentTimeFormatted at clock reading t: "%H:%M:%S"
currentTimeFormatted(t) ==
    LET datetime == localtime(time(t))
    IN  Pad2(datetime.tm_hour) \o <<":">> \o Pad2(datetime.tm_min) \o <<":">>
            \o Pad2(datetime.tm_sec)

(* ------------------------------------------------------------------ state *)

VARIABLES
    clock,       \* seconds the wall clock has advanced since the start
    dirs,        \* the directories that exist
    files,       \* path of each existing file |-> its content
    dirDenied,   \* the directories the file system refuses to create
    openDenied,  \* the channels whose file the file system refuses to open
    alive,       \* whether a Logger object exists
    chan,        \* per stream member: its state and the path it was opened on
    cerr,        \* the diagnostics written to the standard error stream
    nLoggers,    \* constructor calls so far
    nWrites,     \* write-method calls so far
    nPermissions, \* changes of the permissions so far
    lastCall,    \* the latest call of a Logger method and how it ended
    appended     \* every insertion into an open stream, in call order

vars == <<clock, dirs, files, dirDenied, openDenied, alive, chan, cerr,
          nLoggers, nWrites, nPermissions, lastCall, appended>>

Dirs == {LogDir(TRUE), LogDir(FALSE)}

is_open(c) == chan[c].state = "Open"

Init ==
    /\ clock = 0
    /\ dirs = {}
    /\ files = << >>
    /\ dirDenied = {}
    /\ openDenied = {}
    /\ alive = FALSE
    /\ chan = [c \in Channels |-> [state |-> "Unopened", path |-> NoPath]]
    /\ cerr = << >>
    /\ nLoggers = 0
    /\ nWrites = 0
    /\ nPermissions = 0
    /\ lastCall = [op |-> "none", ch |-> "", message |-> << >>, dir |-> "",
                   outcome |-> "ok"]
    /\ appended = << >>

(* ------------------------------------------------------------ environment *)

\* the wall clock advances by a second while a logger is alive (while none
\* is, the time that passes shows in what the next constructor reads)
Tick ==
    /\ alive
    /\ clock < MaxClock
    /\ clock' = clock + 1
    /\ UNCHANGED <<dirs, files, dirDenied, openDenied, alive, chan, cerr,
                   nLoggers, nWrites, nPermissions, lastCall, appended>>

\* The permissions of the file system are read by the constructor only, so
\* they change while no logger is alive and another one can still be made.
\* the file system starts or stops refusing to create a directory
ChangeDirPermission ==
    \E d \in Dirs :
        /\ ~alive
        /\ nLoggers < MaxLoggers
        /\ nPermissions < MaxPermissions
        /\ nPermissions' = nPermissions + 1
        /\ dirDenied' = IF d \in dirDenied THEN dirDenied \ {d}
                        ELSE dirDenied \cup {d}
        /\ UNCHANGED <<clock, dirs, files, openDenied, alive, chan, cerr,
                       nLoggers, nWrites, lastCall, appended>>

\* the file system changes the channels whose file it refuses to open
ChangeFilePermission ==
    \E denied \in SUBSET Channels :
        /\ ~alive
        /\ nLoggers < MaxLoggers
        /\ nPermissions < MaxPermissions
        /\ nPermissions' = nPermissions + 1
        /\ denied # openDenied
        /\ openDenied' = denied
        /\ UNCHANGED <<clock, dirs, files, dirDenied, alive, chan, cerr,
                       nLoggers, nWrites, lastCall, appended>>

(* ----------------------------------------------------------------- Logger *)

\* fault: the overload of create_directories that reports through an
\* error_code and never throws
create_directories_noexcept(p) == FALSE

\* fault: fs::create_directory semantics taken for an error, so that an
\* existing directory throws too
create_directories_strict(p) == p \in dirs \/ p \in dirDenied

\* fs::create_directories(p) throws filesystem_error: the directory is
\* missing and cannot be created (an existing directory is not an error)
create_directories_throws(p) == p \notin dirs /\ p \in dirDenied

\* fault: the stream opened without ios::app, which truncates the file
OpenTruncate(fs, p) == (p :> << >>) @@ fs

\* the files after ofstream::open(p, ios::app) succeeded on the files fs:
\* a missing file is created empty, an existing one keeps its content
OpenAppend(fs, p) == IF p \in DOMAIN fs THEN fs ELSE (p :> << >>) @@ fs

\* the files after an attempt to open p in append mode
OpenedFiles(fs, p, ok) == IF ok THEN OpenAppend(fs, p) ELSE fs

\* the stream member after open(): is_open() tells whether it succeeded
OpenedStream(p, ok) == [state |-> IF ok THEN "Open" ELSE "Failed", path |-> p]

\* cerr << "Error: failed to open log file at " << logFilePath << endl
FailedToOpen(logFilePath) ==
    [text |-> "Error: failed to open log file at", path |-> logFilePath]

\* fault: createLogs returning after the first failure it reports
createLogsCerrFirstOnly(p1, ok1, p2, ok2, p3, ok3) ==
    IF ~ok2 THEN <<FailedToOpen(p2)>>
    ELSE IF ~ok1 THEN <<FailedToOpen(p2)>>
    ELSE IF ~ok3 THEN <<FailedToOpen(p3)>>
    ELSE << >>

\* what createLogs writes to cerr, given the three paths it computed and
\* whether each open succeeded.  The check of warningLogFile comes first;
\* the check of logFile follows it and reads logFilePath after it was
\* assigned the path of the warnings file.
createLogsCerr(p1, ok1, p2, ok2, p3, ok3) ==
    (IF ~ok2 THEN <<FailedToOpen(p2)>> ELSE << >>)
        \o (IF ~ok1 THEN <<FailedToOpen(p2)>> ELSE << >>)
        \o (IF ~ok3 THEN <<FailedToOpen(p3)>> ELSE << >>)

\* Logger::createLogs(logDirPath); t1, t2, t3 are the readings of the wall
\* clock by its three calls of currentDateFormatted
createLogs(logDirPath, t1, t2, t3) ==
    LET p1 == PathOf(logDirPath, currentDateFormatted(t1) \o Suffix("logFile"))
        p2 == PathOf(logDirPath,
                     currentDateFormatted(t2) \o Suffix("warningLogFile"))
        p3 == PathOf(logDirPath,
                     currentDateFormatted(t3) \o Suffix("errorLogFile"))
        ok1 == "logFile" \notin openDenied
        ok2 == "warningLogFile" \notin openDenied
        ok3 == "errorLogFile" \notin openDenied
    IN  /\ files' = OpenedFiles(OpenedFiles(OpenedFiles(files, p1, ok1),
                                            p2, ok2), p3, ok3)
        /\ chan' = [c \in Channels |->
                        CASE c = "logFile" -> OpenedStream(p1, ok1)
                          [] c = "warningLogFile" -> OpenedStream(p2, ok2)
                          [] c = "errorLogFile" -> OpenedStream(p3, ok3)]
        /\ cerr' = cerr \o createLogsCerr(p1, ok1, p2, ok2, p3, ok3)

Called(op, c, message, dir, outcome) ==
    lastCall' = [op |-> op, ch |-> c, message |-> message, dir |-> dir,
                 outcome |-> outcome]

\* Logger::Logger(isSubdirectory)
Logger ==
    \E isSubdirectory \in BOOLEAN :
        LET logDirPath == LogDir(isSubdirectory)
        IN  /\ ~alive
            /\ nLoggers < MaxLoggers
            /\ nLoggers' = nLoggers + 1
            /\ UNCHANGED <<dirDenied, openDenied, nWrites, nPermissions, appended>>
            /\ IF create_directories_throws(logDirPath)
               THEN /\ Called("Logger", "", << >>, logDirPath, "threw")
                    /\ chan' = [c \in Channels |->
                                    [state |-> "Unopened", path |-> NoPath]]
                    /\ UNCHANGED <<clock, dirs, files, alive, cerr>>
               ELSE /\ Called("Logger", "", << >>, logDirPath, "ok")
                    /\ dirs' = dirs \cup {logDirPath}
                    /\ alive' = TRUE
                    /\ \E t1 \in clock .. MaxClock :
                       \E t2 \in t1 .. MaxClock :
                       \E t3 \in t2 .. MaxClock :
                           /\ clock' = t3
                           /\ createLogs(logDirPath, t1, t2, t3)

\* fault: the destructor marking every stream closed, opened or not
ClosedStreamAll(s) == "Closed"

\* the state of a stream member after the destructor: close() if is_open()
ClosedStream(s) == IF s = "Open" THEN "Closed" ELSE s

\* Logger::~Logger()
DestroyLogger ==
    /\ alive
    /\ alive' = FALSE
    /\ chan' = [c \in Channels |->
                    [chan[c] EXCEPT !.state = ClosedStream(@)]]
    /\ Called("~Logger", "", << >>, "", "ok")
    /\ UNCHANGED <<clock, dirs, files, dirDenied, openDenied, cerr, nLoggers,
                   nWrites, nPermissions, appended>>

\* fault: every write method inserting into logFile
StreamPathShared(c) == chan["logFile"].path

\* the file a stream member writes to
StreamPath(c) == chan[c].path

\* stream << currentTimeFormatted() << " " + message
Inserted(t, message) == currentTimeFormatted(t) \o (<<" ">> \o message)

\* the content of a file after text was inserted into a stream open on it
Written(content, text) == content \o text

\* cerr << "Error: log file is not open." << endl, and its two siblings
NotOpen(c) ==
    [text |-> CASE c = "logFile" -> "Error: log file is not open."
                [] c = "warningLogFile" ->
                      "Error: warning log file is not open."
                [] c = "errorLogFile" -> "Error: error log file is not open.",
     path |-> NoPath]

\* fault: a write method that skips the write without a diagnostic
writeCerrSilent(c) == << >>

\* what a write method writes to cerr: nothing when the stream is open
writeCerr(c) == IF is_open(c) THEN << >> ELSE <<NotOpen(c)>>

\* the body shared by Logger::write, writeWarning and writeError, on the
\* stream member c; t is the reading of the wall clock by its call of
\* currentTimeFormatted
writeTo(c, t, message) ==
    IF is_open(c)
    THEN /\ files' = [files EXCEPT ![StreamPath(c)] =
                                        Written(@, Inserted(t, message))]
         /\ appended' = Append(appended,
                               [ch |-> c, path |-> chan[c].path,
                                logger |-> nLoggers,
                                text |-> Inserted(t, message)])
         /\ cerr' = cerr \o writeCerr(c)
    ELSE /\ cerr' = cerr \o writeCerr(c)
         /\ UNCHANGED <<files, appended>>

\* message + "\n"
Line(message) == message \o <<NL>>

\* one call of a write method on the stream member c: m is the caller's
\* argument, message what reaches write, writeWarning or writeError
WriteCall(op, c, m, message) ==
    /\ nWrites' = nWrites + 1
    /\ writeTo(c, clock, message)
    /\ Called(op, c, m, "", "ok")
    /\ UNCHANGED <<clock, dirs, dirDenied, openDenied, alive, chan, nLoggers,
                   nPermissions>>

\* Logger::write(message)
write ==
    /\ alive /\ nWrites < MaxWrites
    /\ \E m \in Messages : WriteCall("write", "logFile", m, m)

\* Logger::writeWarning(message)
writeWarning ==
    /\ alive /\ nWrites < MaxWrites
    /\ \E m \in Messages : WriteCall("writeWarning", "warningLogFile", m, m)

\* Logger::writeError(message)
writeError ==
    /\ alive /\ nWrites < MaxWrites
    /\ \E m \in Messages : WriteCall("writeError", "errorLogFile", m, m)

\* Logger::writeLine(message)
writeLine ==
    /\ alive /\ nWrites < MaxWrites
    /\ \E m \in Messages : WriteCall("writeLine", "logFile", m, Line(m))

\* Logger::writeWarningLine(message)
writeWarningLine ==
    /\ alive /\ nWrites < MaxWrites
    /\ \E m \in Messages :
          WriteCall("writeWarningLine", "warningLogFile", m, Line(m))

\* Logger::writeErrorLine(message)
writeErrorLine ==
    /\ alive /\ nWrites < MaxWrites
    /\ \E m \in Messages :
          WriteCall("writeErrorLine", "errorLogFile", m, Line(m))

Next ==
    \/ Tick
    \/ ChangeDirPermission
    \/ ChangeFilePermission
    \/ Logger
    \/ DestroyLogger
    \/ write
    \/ writeWarning
    \/ writeError
    \/ writeLine
    \/ writeWarningLine
    \/ writeErrorLine

Spec == Init /\ [][Next]_vars

(* ---------------------------------------------------- reading the results *)

Range(s) == {s[i] : i \in DOMAIN s}

IsPrefix(a, b) == Len(a) <= Len(b) /\ SubSeq(b, 1, Len(a)) = a

IsSuffix(a, b) ==
    Len(a) <= Len(b) /\ SubSeq(b, Len(b) - Len(a) + 1, Len(b)) = a

RECURSIVE SplitLines(_, _)
SplitLines(text, cur) ==
    IF text = << >> THEN (IF cur = << >> THEN << >> ELSE <<cur>>)
    ELSE IF Head(text) = NL THEN <<cur>> \o SplitLines(Tail(text), << >>)
    ELSE SplitLines(Tail(text), Append(cur, Head(text)))

\* the lines of a text, as getline reads them: each newline ends a line, and
\* what follows the last newline, if anything, is a line too
Lines(text) == SplitLines(text, << >>)

\* ^\d{2}:\d{2}:\d{2}$
IsTimestamp(s) ==
    /\ Len(s) = 8
    /\ \A i \in {1, 2, 4, 5, 7, 8} : s[i] \in Range(DigitChars)
    /\ s[3] = ":"
    /\ s[6] = ":"

\* a timestamp, one space, and m exactly
IsStamped(text, m) ==
    /\ Len(text) >= 9
    /\ IsTimestamp(SubSeq(text, 1, 8))
    /\ text[9] = " "
    /\ SubSeq(text, 10, Len(text)) = m

\* ^\d{4}-\d{2}-\d{2}$
IsDate(s) ==
    /\ Len(s) = 10
    /\ \A i \in {1, 2, 3, 4, 6, 7, 9, 10} : s[i] \in Range(DigitChars)
    /\ s[5] = "-"
    /\ s[8] = "-"

\* the date string a file name starts with
DateOf(path) == SubSeq(path.name, 1, 10)

RECURSIVE Cat(_)
\* the concatenation of the texts of a sequence of insertions
Cat(entries) ==
    IF entries = << >> THEN << >> ELSE Head(entries).text \o Cat(Tail(entries))

PlainOps == {"write", "writeWarning", "writeError"}
LineOps == {"writeLine", "writeWarningLine", "writeErrorLine"}

\* the step is a call of the constructor, of the destructor, of a write method
CtorStep == nLoggers' = nLoggers + 1
DtorStep == alive /\ ~alive'
WriteStep == nWrites' = nWrites + 1

\* the diagnostics the step wrote to cerr
NewCerr == SubSeq(cerr', Len(cerr) + 1, Len(cerr'))

(* ------------------------------------------------------------------- C1 *)

LineCallOnOpen ==
    /\ WriteStep
    /\ lastCall'.op \in LineOps
    /\ chan[lastCall'.ch].state = "Open"

GainsOneStampedLine(old, new, m) ==
    LET before == Lines(old)
        after == Lines(new)
    IN  /\ Len(after) = Len(before) + 1
        /\ SubSeq(after, 1, Len(before)) = before
        /\ IsStamped(after[Len(after)], m)

\* C1 as stated: a line variant called with m on an open channel makes the
\* channel's file gain exactly one new line, made of an HH:MM:SS timestamp,
\* one space and m, for every m and whatever was written to the file before.
C1_Original ==
    [][LineCallOnOpen =>
          LET p == chan[lastCall'.ch].path
          IN  GainsOneStampedLine(files[p], files'[p], lastCall'.message)]_vars

\* C1 as amended: a line variant called with m on an open channel appends to
\* the channel's file exactly an HH:MM:SS timestamp, one space, m and one
\* newline; this is exactly one new line "HH:MM:SS m" when m contains no
\* newline and the file was empty or ended with a newline before the call.
C1_Amended ==
    [][LineCallOnOpen =>
          LET p == chan[lastCall'.ch].path
              m == lastCall'.message
              old == files[p]
              new == files'[p]
              added == SubSeq(new, Len(old) + 1, Len(new))
          IN  /\ IsPrefix(old, new)
              /\ Len(added) >= 1
              /\ added[Len(added)] = NL
              /\ IsStamped(SubSeq(added, 1, Len(added) - 1), m)
              /\ (NL \notin Range(m) /\ (old = << >> \/ old[Len(old)] = NL))
                    => GainsOneStampedLine(old, new, m)]_vars

\* a line variant has just written a message without newline to a file that
\* already held a complete line, and the file now has two lines
C1_Witness ==
    /\ alive
    /\ lastCall.op \in LineOps
    /\ lastCall.message = <<"a">>
    /\ chan[lastCall.ch].state = "Open"
    /\ LET lines == Lines(files[chan[lastCall.ch].path])
       IN  Len(lines) = 2 /\ IsStamped(lines[2], <<"a">>)

(* ------------------------------------------------------------------- C2 *)

\* C2: a call of any write method, plain or line variant, on a channel whose
\* file failed to open leaves every log file unchanged, writes exactly one
\* diagnostic to the error stream, and returns normally.
C2_FailedWrite ==
    [][(WriteStep /\ chan[lastCall'.ch].state = "Failed") =>
          /\ files' = files
          /\ Len(cerr') = Len(cerr) + 1
          /\ IsPrefix(cerr, cerr')
          /\ lastCall'.outcome = "ok"
          /\ alive']_vars

\* a line variant and a plain variant have both been called on a failed
\* channel
C2_Witness ==
    /\ alive
    /\ nWrites = 2
    /\ lastCall.op \in LineOps
    /\ chan[lastCall.ch].state = "Failed"
    /\ Len(cerr) = 3
    /\ cerr[2] = cerr[3]

(* ------------------------------------------------------------------- C3 *)

\* C3: whatever subset of the three opens fails, a construction whose
\* directory could be made completes; exactly the channels whose open was
\* refused are Failed and each is reported by one diagnostic; every other
\* channel is Open on an existing file.
C3_PartialFailure ==
    [][CtorStep =>
          LET dir == lastCall'.dir
          IN  ~(dir \notin dirs /\ dir \in dirDenied) =>
                 /\ lastCall'.outcome = "ok"
                 /\ alive'
                 /\ Len(NewCerr) = Cardinality(openDenied)
                 /\ \A c \in Channels :
                       IF c \in openDenied
                       THEN chan'[c].state = "Failed"
                       ELSE /\ chan'[c].state = "Open"
                            /\ chan'[c].path \in DOMAIN files']_vars

\* a logger was constructed with one channel failed and the other two open
C3_Witness ==
    /\ alive
    /\ lastCall.op = "Logger"
    /\ chan["warningLogFile"].state = "Failed"
    /\ chan["logFile"].state = "Open"
    /\ chan["errorLogFile"].state = "Open"

(* ------------------------------------------------------------------- C4 *)

\* C4 as stated: the three files of one construction carry the same date
\* string, also when the date changes while the constructor runs.
C4_SameDate ==
    alive =>
        \A c, d \in Channels : DateOf(chan[c].path) = DateOf(chan[d].path)

(* ------------------------------------------------------------------- C5 *)

\* what logger number k inserted into the streams it had open on path p
ByLogger(p, k) ==
    Cat(SelectSeq(appended, LAMBDA e : e.path = p /\ e.logger = k))

RECURSIVE ByLoggersUpTo(_, _)
\* what the loggers 1 .. k inserted on path p, logger after logger
ByLoggersUpTo(p, k) ==
    IF k = 0 THEN << >> ELSE ByLoggersUpTo(p, k - 1) \o ByLogger(p, k)

\* C5: when loggers are constructed, written to and destructed one after the
\* other, every file holds what the first logger wrote to it, followed by
\* what the second wrote to it, and so on, each in call order: nothing an
\* earlier logger wrote is overwritten or lost.
C5_AppendAcrossLoggers ==
    \A p \in DOMAIN files : files[p] = ByLoggersUpTo(p, nLoggers)

\* two loggers have written to the same file, and both are destructed
C5_Witness ==
    /\ ~alive
    /\ nLoggers = 2
    /\ \E p \in DOMAIN files :
          /\ ByLogger(p, 1) # << >>
          /\ ByLogger(p, 2) # << >>
          /\ files[p] = ByLogger(p, 1) \o ByLogger(p, 2)

(* ------------------------------------------------------------------- C6 *)

\* C6: a construction whose log directory is missing and cannot be created
\* ends with an exception, opens no channel and creates no file or
\* directory; no other call of the logger ends with an exception.
C6_DirectoryDenied ==
    [][/\ CtorStep =>
             LET dir == lastCall'.dir
                 denied == dir \notin dirs /\ dir \in dirDenied
             IN  /\ denied =>
                        /\ lastCall'.outcome = "threw"
                        /\ ~alive'
                        /\ files' = files
                        /\ dirs' = dirs
                        /\ \A c \in Channels : chan'[c].state = "Unopened"
                 /\ lastCall'.outcome = "threw" => denied
       /\ ~CtorStep => (lastCall'.outcome = "threw" => lastCall' = lastCall)]_vars

\* a construction has just failed with an exception
C6_Witness ==
    /\ lastCall.op = "Logger"
    /\ lastCall.outcome = "threw"
    /\ lastCall.dir \in dirDenied
    /\ ~alive

(* ------------------------------------------------------------------- C7 *)

\* C7: no step removes a file or changes what a file already holds (the
\* earlier content is a prefix of the later content), and a construction
\* whose log directory exists does not fail and leaves the content of every
\* existing file as it is.
C7_AppendOnly ==
    [][/\ \A p \in DOMAIN files :
             p \in DOMAIN files' /\ IsPrefix(files[p], files'[p])
       /\ (CtorStep /\ lastCall'.dir \in dirs) =>
             /\ lastCall'.outcome = "ok"
             /\ \A p \in DOMAIN files : files'[p] = files[p]]_vars

\* a logger was constructed on a directory that exists and can no longer be
\* created, and opened a file that already had content
C7_Witness ==
    /\ alive
    /\ lastCall.op = "Logger"
    /\ lastCall.outcome = "ok"
    /\ lastCall.dir \in dirDenied
    /\ \E c \in Channels :
          /\ chan[c].state = "Open"
          /\ files[chan[c].path] # << >>

(* ------------------------------------------------------------------- C8 *)

\* C8: while a logger is alive every channel is Open or Failed, and no step
\* (a write, the clock advancing) changes the state of a channel or the
\* path it is bound to; the destructor turns Open into Closed and leaves
\* Failed channels and every path as they are.
C8_ChannelStateFixed ==
    [][/\ alive' => \A c \in Channels : chan'[c].state \in {"Open", "Failed"}
       /\ (alive /\ alive') => chan' = chan
       /\ DtorStep =>
             \A c \in Channels :
                 /\ chan'[c].path = chan[c].path
                 /\ chan'[c].state = IF chan[c].state = "Open" THEN "Closed"
                                     ELSE "Failed"]_vars

\* a logger with an open and a failed channel was written to, lived through
\* a change of the date, and was destructed
C8_Witness ==
    /\ ~alive
    /\ lastCall.op = "~Logger"
    /\ nWrites >= 1
    /\ \E c, d \in Channels :
          /\ chan[c].state = "Closed"
          /\ chan[d].state = "Failed"
          /\ DateOf(chan[c].path) # currentDateFormatted(clock)

(* ------------------------------------------------------------------- C9 *)

\* C9 as stated: a construction emits exactly one diagnostic per channel
\* that failed to open, and the diagnostic of a failed channel names the
\* path of that channel's own file.
C9_DiagnosticNamesOwnFile ==
    [][(CtorStep /\ lastCall'.outcome = "ok") =>
          /\ Len(NewCerr) =
                Cardinality({c \in Channels : chan'[c].state = "Failed"})
          /\ \A c \in Channels :
                chan'[c].state = "Failed" =>
                    Cardinality({i \in DOMAIN NewCerr :
                                    NewCerr[i].path = chan'[c].path}) = 1]_vars

(* ------------------------------------------------------------------ C10 *)

\* what the logger alive after the step has inserted into channel c
OwnEntries(c) ==
    Cat(SelectSeq(appended', LAMBDA e : e.ch = c /\ e.logger = nLoggers'))

====
